---------------------------- MODULE Spec2Model ----------------------------
(***************************************************************************)
(* Model of lang_sam/server.py: the LitServe adapter LangSAMAPI, which     *)
(* decodes one multipart request (decode_request), runs the LangSAM model  *)
(* on it (predict) and serialises the boxes (encode_response).             *)
(*                                                                         *)
(* Python values are tagged records, so that None, a str and a float stay  *)
(* distinct and comparable: [none |-> TRUE], [str |-> s], [float |-> n].   *)
(* A float n stands for n/100 (0.3 is 30, 0.25 is 25).                     *)
(***************************************************************************)
EXTENDS Integers, Sequences, FiniteSets, TLC

(***************************************************************************)
(* Bounds of the model.                                                    *)
(***************************************************************************)
\* the largest number of boxes (and of masks) the model returns for an image
MaxBoxes == 1

(***************************************************************************)
(* Python values.                                                          *)
(***************************************************************************)
PyNone == [none |-> TRUE]

PyStr(s) == [str |-> s]

PyFloat(n) == [float |-> n]

\* server.py:21, the variant LangSAM is constructed with in setup
DefaultSamType == PyStr("sam2.1_hiera_small")

\* the variants a client may name; LangSAM builds any of them
SamTypes == {PyStr("sam2.1_hiera_small"), PyStr("sam2.1_hiera_large")}

\* server.py:36, request.get("box_threshold", 0.3): the float 0.3
DefaultBoxThreshold == 30

\* the text threshold defaulted like the box threshold
TextThresholdLikeBox == DefaultBoxThreshold

\* server.py:37, request.get("text_threshold", 0.25): the float 0.25
DefaultTextThreshold == 25

(***************************************************************************)
(* float(x), server.py:36-37.  x is a float (the default) or the text of a *)
(* form field, here a sequence of characters.  The fragment of Python's    *)
(* float syntax modelled is digits with at most one ".", at least one      *)
(* digit; any other text is a ValueError.  Values are kept to hundredths.  *)
(***************************************************************************)
DigitValue ==
    [c \in {"0", "1", "2", "3", "4", "5", "6", "7", "8", "9"} |->
        CASE c = "0" -> 0 [] c = "1" -> 1 [] c = "2" -> 2 [] c = "3" -> 3
          [] c = "4" -> 4 [] c = "5" -> 5 [] c = "6" -> 6 [] c = "7" -> 7
          [] c = "8" -> 8 [] c = "9" -> 9]

IsDigits(cs) == \A i \in 1..Len(cs) : cs[i] \in DOMAIN DigitValue

RECURSIVE DigitsToNat(_)
DigitsToNat(cs) ==
    IF cs = <<>> THEN 0
    ELSE 10 * DigitsToNat(SubSeq(cs, 1, Len(cs) - 1)) + DigitValue[cs[Len(cs)]]

DotPositions(cs) == {i \in 1..Len(cs) : cs[i] = "."}

\* the value of a well-formed text in hundredths
HundredthsOf(intPart, fracPart) ==
    100 * DigitsToNat(intPart)
      + (CASE Len(fracPart) = 0 -> 0
           [] Len(fracPart) = 1 -> 10 * DigitsToNat(fracPart)
           [] OTHER -> DigitsToNat(SubSeq(fracPart, 1, 2)))

\* [ok |-> TRUE, value |-> PyFloat(n)] or [ok |-> FALSE] (ValueError)
float(x) ==
    IF "float" \in DOMAIN x THEN [ok |-> TRUE, value |-> x]
    ELSE LET cs == x.str
             dots == DotPositions(cs)
         IN  IF Cardinality(dots) > 1 THEN [ok |-> FALSE]
             ELSE LET dot == IF dots = {} THEN Len(cs) + 1
                             ELSE CHOOSE i \in dots : TRUE
                      intPart == SubSeq(cs, 1, dot - 1)
                      fracPart == SubSeq(cs, dot + 1, Len(cs))
                  IN  IF /\ IsDigits(intPart)
                         /\ IsDigits(fracPart)
                         /\ Len(intPart) + Len(fracPart) > 0
                      THEN [ok |-> TRUE,
                            value |-> PyFloat(HundredthsOf(intPart, fracPart))]
                      ELSE [ok |-> FALSE]

(***************************************************************************)
(* The multipart form.  A field is <<>> when absent and <<v>> when         *)
(* present; request.get(k) is None and request.get(k, d) is d when absent. *)
(***************************************************************************)
get(request, key) ==
    IF request[key] = <<>> THEN PyNone ELSE request[key][1]

getdefault(request, key, default) ==
    IF request[key] = <<>> THEN default ELSE request[key][1]

\* an exception: its Python class and its message
Raise(exc, msg) == [ok |-> FALSE, error |-> [exc |-> exc, msg |-> msg]]

Return(v) == [ok |-> TRUE, value |-> v]

\* a decode that falls back to the default variant
GetSamTypeOrDefault(request) ==
    getdefault(request, "sam_type", PyStr("sam2.1_hiera_small"))

\* server.py:35
GetSamType(request) == get(request, "sam_type")

\* a decode that never tests image_file and reads nothing from a missing one
decode_request_unchecked(request) ==
    LET box_threshold ==
            float(getdefault(request, "box_threshold", PyFloat(30)))
        text_threshold ==
            float(getdefault(request, "text_threshold", PyFloat(25)))
    IN  IF ~box_threshold.ok \/ ~text_threshold.ok
        THEN Raise("ValueError", "could not convert string to float")
        ELSE Return([sam_type |-> get(request, "sam_type"),
                     box_threshold |-> box_threshold.value,
                     text_threshold |-> text_threshold.value,
                     image_bytes |-> IF request.image = <<>> THEN <<>>
                                     ELSE request.image[1].file,
                     text_prompt |-> getdefault(request, "text_prompt", PyStr(""))])

(***************************************************************************)
(* decode_request, server.py:24-53.  The two float() calls come first, so  *)
(* a malformed threshold raises before the image is looked at.             *)
(***************************************************************************)
decode_request(request) ==
    LET sam_type == GetSamType(request)
        box_threshold ==
            float(getdefault(request, "box_threshold", PyFloat(DefaultBoxThreshold)))
        text_threshold ==
            float(getdefault(request, "text_threshold", PyFloat(DefaultTextThreshold)))
        text_prompt == getdefault(request, "text_prompt", PyStr(""))
        image_file == get(request, "image")
    IN  IF ~box_threshold.ok \/ ~text_threshold.ok
        THEN Raise("ValueError", "could not convert string to float")
        ELSE IF image_file = PyNone
        THEN Raise("ValueError", "No image file provided in the request.")
        ELSE Return([sam_type |-> sam_type,
                     box_threshold |-> box_threshold.value,
                     text_threshold |-> text_threshold.value,
                     image_bytes |-> image_file.file,
                     text_prompt |-> text_prompt])

(***************************************************************************)
(* Image.open(BytesIO(image_bytes)).convert("RGB"), server.py:69-72.  PIL  *)
(* recognises an image by its leading signature; the PNG signature stands  *)
(* for the formats it knows.  Any failure becomes a ValueError.            *)
(***************************************************************************)
PngSignature == <<137, 80, 78, 71>>

open_image(image_bytes) ==
    IF Len(image_bytes) >= Len(PngSignature)
       /\ SubSeq(image_bytes, 1, Len(PngSignature)) = PngSignature
    THEN Return([mode |-> "RGB", data |-> image_bytes])
    ELSE Raise("ValueError", "Invalid image data")

(***************************************************************************)
(* The boxes of a result, server.py:82-88.  A value is a numpy array, a    *)
(* torch tensor (on some device) or something else (a list); data is the   *)
(* sequence of its rows.  Tensor.cpu() moves a tensor to the cpu and       *)
(* Tensor.numpy() gives the array with the same rows, and raises a         *)
(* TypeError for a tensor that is not on the cpu.                          *)
(***************************************************************************)
ndarray(data) == [type |-> "ndarray", device |-> "cpu", data |-> data]

cpu(tensor) == [tensor EXCEPT !.device = "cpu"]

numpy(tensor) ==
    IF tensor.device = "cpu" THEN Return(ndarray(tensor.data))
    ELSE Raise("TypeError", "can't convert cuda device type tensor to numpy")

\* a conversion that forgets .cpu()
normalize_boxes_on_device(boxes) ==
    IF boxes.type # "ndarray"
    THEN IF boxes.type = "tensor"
         THEN numpy(boxes)
         ELSE Raise("TypeError",
                    "Unexpected type for boxes. Expected numpy array or torch tensor.")
    ELSE Return(boxes)

\* server.py:82-88
normalize_boxes(boxes) ==
    IF boxes.type # "ndarray"
    THEN IF boxes.type = "tensor"
         THEN numpy(cpu(boxes))
         ELSE Raise("TypeError",
                    "Unexpected type for boxes. Expected numpy array or torch tensor.")
    ELSE Return(boxes)

\* a predict that treats "no masks" as a failure
predict_return_no_masks_raises(results) ==
    LET boxes == normalize_boxes(results.boxes)
    IN  IF ~boxes.ok THEN boxes
        ELSE IF results.masks = 0
        THEN Raise("ValueError", "No masks detected.")
        ELSE Return([boxes |-> boxes.value])

\* server.py:81-94: results is results[0] of the batch; both branches of the
\* masks test return the boxes
predict_return(results) ==
    LET boxes == normalize_boxes(results.boxes)
    IN  IF ~boxes.ok THEN boxes
        ELSE IF results.masks = 0
        THEN Return([boxes |-> boxes.value])
        ELSE Return([boxes |-> boxes.value])

(***************************************************************************)
(* np.save(buffer, boxes), server.py:100-102: the .npy container holds a   *)
(* magic string, the shape and the rows' numbers in row-major order.       *)
(***************************************************************************)
RECURSIVE Flatten(_)
Flatten(rows) ==
    IF rows = <<>> THEN <<>> ELSE Head(rows) \o Flatten(Tail(rows))

np_save(boxes) ==
    [magic |-> "NUMPY", shape |-> <<Len(boxes.data), 4>>,
     data |-> Flatten(boxes.data)]

\* server.py:104
Response(content) ==
    [content |-> content, media_type |-> "application/octet-stream"]

(***************************************************************************)
(* LangSAM, the model object (lang_sam.LangSAM, not part of server.py).    *)
(* server.py reads model.sam_type (line 65) and calls                      *)
(* model.sam.build_model (line 67) and model.predict (line 74).  The       *)
(* handle records the variant it is configured for (sam_type) and the      *)
(* variant its SAM weights were last built for (sam).  server.py never     *)
(* assigns model.sam_type itself: what the constructor and build_model do  *)
(* to the two fields is not in server.py and follows the specification     *)
(* (section 3: the handle wraps the loaded model and its currently         *)
(* configured variant; section 7: a rebuild may fail).                     *)
(***************************************************************************)
\* LangSAM(sam_type=...): a handle built for that variant
LangSAM(sam_type) == [sam_type |-> sam_type, sam |-> sam_type]

\* model.sam.build_model(sam_type): rebuilds the handle in place for that
\* variant and records it; a value that names no variant, or a load that
\* fails (loaded = FALSE), raises and leaves the handle as it was.
build_model(model, sam_type, loaded) ==
    IF sam_type \in SamTypes /\ loaded
    THEN Return([sam_type |-> sam_type, sam |-> sam_type])
    ELSE Raise("Exception", "build_model failed")

(***************************************************************************)
(* Inputs.                                                                 *)
(***************************************************************************)
PngBytes == PngSignature \o <<13>>

JunkBytes == <<0>>

Thresholds == {<<>>, <<PyStr(<<"0", ".", "5">>)>>, <<PyStr(<<"a", "b", "c">>)>>}

Requests ==
    [sam_type : {<<>>} \cup {<<t>> : t \in SamTypes},
     box_threshold : Thresholds,
     text_threshold : Thresholds,
     text_prompt : {<<>>, <<PyStr("dog")>>},
     image : {<<>>, <<[file |-> PngBytes]>>, <<[file |-> JunkBytes]>>}]

\* what model.predict may return for one image: boxes as an array, a tensor
\* or something else, with up to MaxBoxes rows, and a number of masks
Rows == {<<1, 2, 3, 4>>, <<5, 6, 7, 8>>}

BoxData == UNION {[1..n -> Rows] : n \in 0..MaxBoxes}

BoxValues ==
    {[type |-> "ndarray", device |-> "cpu", data |-> d] : d \in BoxData}
      \cup {[type |-> "tensor", device |-> dev, data |-> d] :
              dev \in {"cpu", "cuda"}, d \in BoxData}
      \cup {[type |-> "list", device |-> "cpu", data |-> d] : d \in BoxData}

ModelResults == [boxes : BoxValues, masks : 0..MaxBoxes]

\* model.predict([image_pil], [text_prompt], ...)[0]: with an empty prompt
\* nothing is detected (no boxes, no masks); otherwise any result
model_predict(inputs) ==
    IF inputs.text_prompt = PyStr("")
    THEN {r \in ModelResults : r.boxes.data = <<>> /\ r.masks = 0}
    ELSE ModelResults

(***************************************************************************)
(* State.  model is self.model, shared by every request.  call[w] is the   *)
(* request worker w is handling: where it is (pc), the values the          *)
(* callbacks pass on (request, inputs, results, output, response), and     *)
(* what happened to it so far.                                             *)
(***************************************************************************)
VARIABLES model, call

vars == <<model, call>>

Workers == {"w1", "w2"}

IdleCall ==
    [pc |-> "idle", request |-> PyNone, inputs |-> PyNone, results |-> PyNone,
     output |-> PyNone, response |-> PyNone, error |-> PyNone,
     phases |-> <<>>, outcomes |-> 0, rebuild_calls |-> 0, predict_calls |-> 0,
     model0 |-> PyNone, checked |-> PyNone, built_with |-> PyNone,
     ran_on |-> PyNone,
     interfered |-> FALSE]

\* setup, server.py:19-22
Init ==
    /\ model = LangSAM(DefaultSamType)
    /\ call = [w \in Workers |-> IdleCall]

\* an exception leaves the callback: the request ends with that error
Fail(c, error) ==
    [c EXCEPT !.pc = "done", !.error = error, !.outcomes = @ + 1]

\* the server takes request r and calls decode_request
Accept(w, r) ==
    /\ call[w].pc = "idle"
    /\ call' = [call EXCEPT ![w] =
                  [IdleCall EXCEPT !.pc = "decode_request", !.request = r,
                                   !.phases = <<"decode_request">>,
                                   !.model0 = model]]
    /\ UNCHANGED model

\* one request at a time: the server's single worker loop
Receive(w) ==
    /\ \A v \in Workers : call[v].pc = "idle"
    /\ \E r \in Requests : Accept(w, r)

\* server.py:24-53
DecodeOk(w) ==
    /\ call[w].pc = "decode_request"
    /\ decode_request(call[w].request).ok
    /\ call' = [call EXCEPT ![w] =
                  [@ EXCEPT !.pc = "predict",
                            !.inputs = decode_request(call[w].request).value,
                            !.phases = Append(@, "predict")]]
    /\ UNCHANGED model

DecodeFail(w) ==
    /\ call[w].pc = "decode_request"
    /\ ~decode_request(call[w].request).ok
    /\ call' = [call EXCEPT ![w] =
                  Fail(@, decode_request(call[w].request).error)]
    /\ UNCHANGED model

\* a test that rebuilds on every request
NeedsRebuildAlways(inputs, m) == TRUE

\* a test with the comparison the wrong way round
NeedsRebuildWhenSame(inputs, m) == inputs.sam_type = m.sam_type

\* server.py:65
NeedsRebuild(inputs, m) == inputs.sam_type # m.sam_type

\* a predict that opens the image before it looks at the variant
PredictCheckImageFirst(w) ==
    /\ call[w].pc = "predict"
    /\ LET image_pil == open_image(call[w].inputs.image_bytes)
       IN  call' = [call EXCEPT ![w] =
                      IF ~image_pil.ok THEN Fail(@, image_pil.error)
                      ELSE [@ EXCEPT !.pc = IF NeedsRebuild(call[w].inputs, model)
                                            THEN "build_model" ELSE "open_image",
                                     !.checked = model.sam_type]]
    /\ UNCHANGED model

\* a predict that never rebuilds
PredictCheckNoRebuild(w) ==
    /\ call[w].pc = "predict"
    /\ call' = [call EXCEPT ![w] =
                  [@ EXCEPT !.pc = "open_image", !.checked = model.sam_type]]
    /\ UNCHANGED model

PredictCheck(w) ==
    /\ call[w].pc = "predict"
    /\ call' = [call EXCEPT ![w] =
                  [@ EXCEPT !.pc = IF NeedsRebuild(call[w].inputs, model)
                                   THEN "build_model" ELSE "open_image",
                            !.checked = model.sam_type]]
    /\ UNCHANGED model

\* server.py:67
Rebuild(w) ==
    /\ call[w].pc = "build_model"
    /\ \E loaded \in BOOLEAN :
         LET built == build_model(model, call[w].inputs.sam_type, loaded)
         IN  IF built.ok
             THEN /\ model' = built.value
                  /\ call' = [v \in Workers |->
                       IF v = w
                       THEN [call[v] EXCEPT !.pc = "open_image",
                                            !.rebuild_calls = @ + 1,
                                            !.built_with = call[w].inputs.sam_type]
                       ELSE IF call[v].pc \in {"open_image", "model_predict"}
                       THEN [call[v] EXCEPT !.interfered = TRUE]
                       ELSE call[v]]
             ELSE /\ call' = [call EXCEPT ![w] =
                                Fail([@ EXCEPT !.rebuild_calls = @ + 1,
                                               !.built_with = call[w].inputs.sam_type],
                                     built.error)]
                  /\ UNCHANGED model

\* server.py:69-72
OpenImage(w) ==
    /\ call[w].pc = "open_image"
    /\ LET image_pil == open_image(call[w].inputs.image_bytes)
       IN  call' = [call EXCEPT ![w] =
                      IF image_pil.ok THEN [@ EXCEPT !.pc = "model_predict"]
                      ELSE Fail(@, image_pil.error)]
    /\ UNCHANGED model

\* server.py:74-81: the model runs on the weights it holds at that moment
ModelPredict(w) ==
    /\ call[w].pc = "model_predict"
    /\ \E r \in model_predict(call[w].inputs) :
         call' = [call EXCEPT ![w] =
                    [@ EXCEPT !.pc = "normalize", !.results = r,
                              !.predict_calls = @ + 1,
                              !.ran_on = model.sam]]
    /\ UNCHANGED model

\* server.py:82-94, then the server calls encode_response
Normalize(w) ==
    /\ call[w].pc = "normalize"
    /\ LET out == predict_return(call[w].results)
       IN  call' = [call EXCEPT ![w] =
                      IF out.ok
                      THEN [@ EXCEPT !.pc = "encode_response",
                                     !.output = out.value,
                                     !.phases = Append(@, "encode_response")]
                      ELSE Fail(@, out.error)]
    /\ UNCHANGED model

\* an encode that runs predict again when np.save raises
EncodeRetry(w) ==
    /\ call[w].pc = "encode_response"
    /\ \E saved \in BOOLEAN :
         call' = [call EXCEPT ![w] =
                    IF saved
                    THEN [@ EXCEPT !.pc = "done",
                                   !.response = Response(np_save(call[w].output.boxes)),
                                   !.outcomes = @ + 1]
                    ELSE [@ EXCEPT !.pc = "predict",
                                   !.phases = Append(@, "predict")]]
    /\ UNCHANGED model

\* server.py:96-106: np.save may raise; any exception becomes a ValueError
Encode(w) ==
    /\ call[w].pc = "encode_response"
    /\ \E saved \in BOOLEAN :
         call' = [call EXCEPT ![w] =
                    IF saved
                    THEN [@ EXCEPT !.pc = "done",
                                   !.response = Response(np_save(call[w].output.boxes)),
                                   !.outcomes = @ + 1]
                    ELSE Fail(@, Raise("ValueError", "Error encoding boxes").error)]
    /\ UNCHANGED model

\* the server sends the response or the error and the worker is free again
Respond(w) ==
    /\ call[w].pc = "done"
    /\ call' = [call EXCEPT ![w] = IdleCall]
    /\ UNCHANGED model

Step(w) ==
    \/ DecodeOk(w)
    \/ DecodeFail(w)
    \/ PredictCheck(w)
    \/ Rebuild(w)
    \/ OpenImage(w)
    \/ ModelPredict(w)
    \/ Normalize(w)
    \/ Encode(w)
    \/ Respond(w)

Next == \E w \in Workers : Receive(w) \/ Step(w)

Spec == Init /\ [][Next]_vars

(***************************************************************************)
(* The same callbacks with requests handled concurrently against the one   *)
(* shared model: a worker takes a request whatever the others are doing.   *)
(* server.py takes no lock anywhere, so the steps of predict interleave.   *)
(* The requests are those whose thresholds and prompt are left to their    *)
(* defaults; the variant and the image vary.                               *)
(***************************************************************************)
ConcRequests ==
    {r \in Requests : /\ r.box_threshold = <<>>
                      /\ r.text_threshold = <<>>
                      /\ r.text_prompt = <<>>}

ReceiveConc(w) == \E r \in ConcRequests : Accept(w, r)

NextConc == \E w \in Workers : ReceiveConc(w) \/ Step(w)

SpecConc == Init /\ [][NextConc]_vars

(***************************************************************************)
(* Vocabulary of the properties.                                           *)
(***************************************************************************)
NoImageMsg == "No image file provided in the request."

BadFloatMsg == "could not convert string to float"

InvalidImageMsg == "Invalid image data"

RebuildFailedMsg == "build_model failed"

EncodingMsg == "Error encoding boxes"

\* the error kinds of the specification, as the exceptions server.py raises
IsInputError(e) ==
    e # PyNone /\ e.exc = "ValueError" /\ e.msg \in {NoImageMsg, BadFloatMsg}

IsInvalidImageError(e) ==
    e # PyNone /\ e.exc = "ValueError" /\ e.msg = InvalidImageMsg

IsTypeError(e) == e # PyNone /\ e.exc = "TypeError"

IsRebuildError(e) == e # PyNone /\ e.msg = RebuildFailedMsg

\* the request of c got past the test of line 65 and its build_model call,
\* if any, has returned or raised
PastRebuild(c) == c.checked # PyNone /\ c.pc # "build_model"

\* predict has taken the boxes out of the model's result
PastNormalize(c) == c.results # PyNone /\ c.pc # "normalize"

HalfText == PyStr(<<"0", ".", "5">>)

C2_NoImageNoModelCall ==
    \A w \in Workers :
      LET c == call[w]
      IN  (c.request # PyNone /\ c.request.image = <<>>) =>
            /\ c.pc \in {"decode_request", "done"}
            /\ c.phases = <<"decode_request">>
            /\ c.rebuild_calls = 0
            /\ c.predict_calls = 0
            /\ model = c.model0
            /\ c.pc = "done" => IsInputError(c.error) /\ c.response = PyNone

\* no image, every other field well-formed, and a variant that would have
\* been rebuilt had predict run
C2_Witness ==
    \E w \in Workers :
      /\ call[w].pc = "done"
      /\ call[w].request.image = <<>>
      /\ call[w].request.box_threshold = <<HalfText>>
      /\ call[w].request.sam_type # <<>>
      /\ call[w].request.sam_type[1] # model.sam_type
      /\ call[w].error.msg = NoImageMsg

(***************************************************************************)
(* C3.  Requests handled one after another: the handle changes only in     *)
(* the build_model step of a request whose model_type differs from the     *)
(* recorded variant (so never in decode_request or encode_response), and a *)
(* request whose model_type is the recorded variant makes no rebuild and   *)
(* leaves the handle as it was.                                            *)
(***************************************************************************)
C3_HandleChangesOnlyOnSwitch ==
    /\ [][model' # model =>
            \E w \in Workers :
              /\ call[w].pc = "build_model"
              /\ call'[w].pc = "open_image"
              /\ call[w].inputs.sam_type # model.sam_type
              /\ \A v \in Workers \ {w} : call'[v] = call[v]]_vars
    /\ [](\A w \in Workers :
            (call[w].checked # PyNone /\ call[w].inputs.sam_type = call[w].checked)
              => /\ call[w].rebuild_calls = 0
                 /\ call[w].pc # "build_model"
                 /\ model = call[w].model0)

\* a request for the non-default variant served, with no rebuild, by a
\* handle an earlier request had switched to it
C3_Witness ==
    \E w \in Workers :
      /\ call[w].pc = "done"
      /\ call[w].response # PyNone
      /\ call[w].inputs.sam_type = call[w].checked
      /\ call[w].checked # DefaultSamType
      /\ call[w].rebuild_calls = 0
      /\ call[w].predict_calls = 1

(***************************************************************************)
(* C4.  A result with zero masks is a success of predict: when the model   *)
(* returned its boxes as an array or a tensor, predict returns those       *)
(* boxes (empty or not) and raises nothing, and what predict returns does  *)
(* not depend on the number of masks.                                      *)
(***************************************************************************)
C4_ZeroMasksIsSuccess ==
    /\ \A w \in Workers :
         LET c == call[w]
         IN  (/\ PastNormalize(c)
              /\ c.results.masks = 0
              /\ c.results.boxes.type \in {"ndarray", "tensor"}) =>
               /\ c.output = [boxes |-> ndarray(c.results.boxes.data)]
               /\ "encode_response" \in {c.phases[i] : i \in DOMAIN c.phases}
               /\ c.error # PyNone => c.error.msg = EncodingMsg
    /\ \A r \in ModelResults :
         predict_return(r) = predict_return([r EXCEPT !.masks = 0])

\* no detections at all, answered with the empty array
C4_Witness ==
    \E w \in Workers :
      /\ call[w].pc = "done"
      /\ call[w].results # PyNone
      /\ call[w].results.masks = 0
      /\ call[w].results.boxes.data = <<>>
      /\ call[w].response # PyNone
      /\ call[w].response.content.shape = <<0, 4>>

(***************************************************************************)
(* C5.  predict returns the same plain array whether the model returned    *)
(* the boxes as an array or as a tensor (on any device) with the same      *)
(* rows, and when the boxes are neither the request ends with a TypeError  *)
(* and predict returns nothing.                                            *)
(***************************************************************************)
C5_BoxesNormalized ==
    /\ \A w \in Workers :
         LET c == call[w]
         IN  PastNormalize(c) =>
               IF c.results.boxes.type \in {"ndarray", "tensor"}
               THEN c.output = [boxes |-> ndarray(c.results.boxes.data)]
               ELSE /\ c.pc = "done"
                    /\ IsTypeError(c.error)
                    /\ c.output = PyNone
                    /\ c.response = PyNone
    /\ \A d \in BoxData : \A dev \in {"cpu", "cuda"} :
         normalize_boxes([type |-> "tensor", device |-> dev, data |-> d])
           = normalize_boxes(ndarray(d))

\* a tensor on the accelerator, with a row in it, came back as a plain array
C5_Witness ==
    \E w \in Workers :
      /\ call[w].pc = "encode_response"
      /\ call[w].results.boxes.type = "tensor"
      /\ call[w].results.boxes.device = "cuda"
      /\ call[w].results.boxes.data # <<>>
      /\ call[w].output.boxes.type = "ndarray"
      /\ call[w].output.boxes.data = call[w].results.boxes.data

(***************************************************************************)
(* C6, as claimed.  For every request with an image and a text_prompt,     *)
(* decode_request raises nothing and yields the record with the            *)
(* thresholds defaulted to 0.3 and 0.25 when absent and every present      *)
(* field passed through.                                                   *)
(***************************************************************************)
DecodedAsClaimed(c) ==
    /\ c.inputs # PyNone
    /\ c.error = PyNone \/ ~IsInputError(c.error)
    /\ c.inputs.sam_type =
         IF c.request.sam_type = <<>> THEN PyNone ELSE c.request.sam_type[1]
    /\ c.inputs.text_prompt = c.request.text_prompt[1]
    /\ c.inputs.image_bytes = c.request.image[1].file
    /\ c.request.box_threshold = <<>> => c.inputs.box_threshold = PyFloat(30)
    /\ c.request.text_threshold = <<>> => c.inputs.text_threshold = PyFloat(25)
    /\ c.request.box_threshold = <<HalfText>> => c.inputs.box_threshold = PyFloat(50)
    /\ c.request.text_threshold = <<HalfText>> => c.inputs.text_threshold = PyFloat(50)

C6_AsClaimed ==
    \A w \in Workers :
      LET c == call[w]
      IN  (/\ c.pc \notin {"idle", "decode_request"}
           /\ c.request.image # <<>>
           /\ c.request.text_prompt # <<>>) => DecodedAsClaimed(c)

(***************************************************************************)
(* C6, amended.  The same, for the requests whose threshold fields, when   *)
(* present, are texts that float() accepts: a malformed threshold makes    *)
(* decode_request raise although the image and the prompt are there.       *)
(***************************************************************************)
ThresholdsWellFormed(request) ==
    /\ request.box_threshold # <<>> => float(request.box_threshold[1]).ok
    /\ request.text_threshold # <<>> => float(request.text_threshold[1]).ok

C6_DecodeDefaults ==
    \A w \in Workers :
      LET c == call[w]
      IN  (/\ c.pc \notin {"idle", "decode_request"}
           /\ c.request.image # <<>>
           /\ c.request.text_prompt # <<>>
           /\ ThresholdsWellFormed(c.request)) => DecodedAsClaimed(c)

\* box_threshold given, text_threshold and sam_type left out
C6_Witness ==
    \E w \in Workers :
      /\ call[w].pc = "predict"
      /\ call[w].request.box_threshold = <<HalfText>>
      /\ call[w].request.text_threshold = <<>>
      /\ call[w].request.sam_type = <<>>
      /\ call[w].request.text_prompt # <<>>
      /\ call[w].inputs.box_threshold = PyFloat(50)
      /\ call[w].inputs.text_threshold = PyFloat(25)

(***************************************************************************)
(* C8, as claimed.  A request whose model_type differs from the recorded   *)
(* variant and whose image bytes are no image calls build_model, then      *)
(* fails with the invalid-image error, and never calls model.predict.      *)
(***************************************************************************)
SwitchWithBadImage(c) ==
    /\ c.pc = "done"
    /\ c.inputs # PyNone
    /\ c.inputs.sam_type # c.model0.sam_type
    /\ ~open_image(c.inputs.image_bytes).ok

C8_AsClaimed ==
    \A w \in Workers :
      SwitchWithBadImage(call[w]) =>
        /\ call[w].rebuild_calls = 1
        /\ IsInvalidImageError(call[w].error)
        /\ call[w].predict_calls = 0

(***************************************************************************)
(* C8, amended.  Such a request calls build_model once, before the image   *)
(* is opened, and never calls model.predict; it fails with the             *)
(* invalid-image error when the rebuild succeeded (the handle is then      *)
(* switched to its variant), and with the rebuild's own error, the image   *)
(* left unopened, when build_model raised.                                 *)
(***************************************************************************)
C8_RebuildBeforeImage ==
    \A w \in Workers :
      LET c == call[w]
      IN  SwitchWithBadImage(c) =>
            /\ c.rebuild_calls = 1
            /\ c.built_with = c.inputs.sam_type
            /\ c.predict_calls = 0
            /\ c.response = PyNone
            /\ IsInvalidImageError(c.error) \/ IsRebuildError(c.error)
            /\ IsInvalidImageError(c.error) <=> model.sam_type = c.inputs.sam_type
            /\ IsRebuildError(c.error) => model = c.model0

\* the rebuild went through and the request then failed on its image
C8_Witness ==
    \E w \in Workers :
      /\ SwitchWithBadImage(call[w])
      /\ IsInvalidImageError(call[w].error)
      /\ call[w].rebuild_calls = 1
      /\ model # call[w].model0
      /\ model.sam = call[w].inputs.sam_type

Phases == <<"decode_request", "predict", "encode_response">>

C10_OnePassOneOutcome ==
    \A w \in Workers :
      LET c == call[w]
      IN  /\ Len(c.phases) <= Len(Phases)
          /\ c.phases = SubSeq(Phases, 1, Len(c.phases))
          /\ c.rebuild_calls <= 1
          /\ c.predict_calls <= 1
          /\ c.outcomes = IF c.pc = "done" THEN 1 ELSE 0
          /\ c.pc # "done" => c.response = PyNone /\ c.error = PyNone
          /\ c.pc = "done" =>
               /\ (c.response = PyNone) # (c.error = PyNone)
               /\ c.response # PyNone => Len(c.phases) = 3
               /\ IsInputError(c.error) => Len(c.phases) = 1 /\ c.predict_calls = 0
               /\ (c.error # PyNone /\ c.error.msg = EncodingMsg) =>
                    Len(c.phases) = 3
               /\ (\/ IsRebuildError(c.error)
                   \/ IsInvalidImageError(c.error)
                   \/ IsTypeError(c.error)) => Len(c.phases) = 2
               /\ (IsRebuildError(c.error) \/ IsInvalidImageError(c.error))
                    => c.predict_calls = 0

\* a request that went through the three callbacks and failed in the last
C10_Witness ==
    \E w \in Workers :
      /\ call[w].pc = "done"
      /\ call[w].phases = Phases
      /\ call[w].error # PyNone
      /\ call[w].error.msg = EncodingMsg
      /\ call[w].rebuild_calls = 1
      /\ call[w].predict_calls = 1

(***************************************************************************)
(* C7.  With two requests in flight on the shared handle nothing holds a   *)
(* worker back: a pending build_model call and a pending model.predict     *)
(* call can always go ahead, whatever the other worker is doing.  A        *)
(* request's inference then runs on a variant other than its own exactly   *)
(* when another request rebuilt the handle between this request's variant  *)
(* test (or its own rebuild) and its model.predict call.                   *)
(***************************************************************************)
RanOnOtherVariant(c) == c.ran_on # PyNone /\ c.ran_on # c.inputs.sam_type

C7_NoLockAroundRebuild ==
    \A w \in Workers :
      /\ call[w].pc = "build_model" => ENABLED Rebuild(w)
      /\ call[w].pc = "model_predict" => ENABLED ModelPredict(w)
      /\ RanOnOtherVariant(call[w]) => call[w].interfered

\* the inference of a request for one variant ran on the weights that the
\* other request, for the other variant, had just built
C7_Witness ==
    \E w \in Workers : \E v \in Workers \ {w} :
      /\ RanOnOtherVariant(call[w])
      /\ call[w].inputs.sam_type \in SamTypes
      /\ call[v].inputs # PyNone
      /\ call[v].inputs.sam_type \in SamTypes
      /\ call[v].inputs.sam_type # call[w].inputs.sam_type
      /\ call[v].rebuild_calls = 1
      /\ call[w].ran_on = call[v].inputs.sam_type

=============================================================================
